---- MODULE Spec2Model ----
(***************************************************************************)
(* A model of the RAG chatbot's pipeline: the indexer (app/index.py), the  *)
(* Alpha Vantage client and passage builders (app/ingest_api.py) and the   *)
(* answer composer (app/rag_chain.py).                                     *)
(*                                                                         *)
(* Python strings whose characters the code inspects (keys, queries,       *)
(* texts, ids) are sequences of one-character strings, so that lower(),    *)
(* the "in" substring test, slicing and the regular expressions are        *)
(* computed character by character.                                        *)
(***************************************************************************)
EXTENDS Integers, Sequences, FiniteSets, TLC

VARIABLES
    exists,     \* index: the names of the collections the store holds
    cols,       \* index: collection name -> the set of stored chunks
    last,       \* index: the latest operation, its arguments and its outcome
    getPc,      \* AVClient._get: "idle" | "loop" | "returned" | "raised"
    getReqs,    \* AVClient._get: requests issued by the current call
    getSleeps,  \* AVClient._get: sleeps taken by the current call
    getResp,    \* AVClient._get: the latest response
    getOut,     \* AVClient._get: the value returned or the error raised
    ansIn,      \* answer(): the query, the retrieved chunks, the generator's output
    ansOut,     \* answer(): pc, prompt, prioritized chunks, returned pair
    tsIn,       \* passage builders: symbol, market, response, max_days
    tsOut,      \* passage builders: pc, the passages returned
    apiIn,      \* build_api_docs: the symbol lists, the market, the flags
    apiOut,     \* build_api_docs: pc, the docs returned
    build,      \* a build_index call in progress: pc, its batch, what it found
    seen        \* retrieve(): what the latest query saw, and when it ran

idxVars == <<exists, cols, last>>
getVars == <<getPc, getReqs, getSleeps, getResp, getOut>>
ansVars == <<ansIn, ansOut>>
tsVars  == <<tsIn, tsOut>>
apiVars == <<apiIn, apiOut>>
raceVars == <<build, seen>>
vars    == <<exists, cols, last, getPc, getReqs, getSleeps, getResp, getOut,
             ansIn, ansOut, tsIn, tsOut, apiIn, apiOut, build, seen>>

-----------------------------------------------------------------------------
(* Python str and list primitives                                          *)

\* Python's None; no character sequence equals it (characters are one long).
None == <<"None">>

\* The characters in code-point order (those the model's strings use).
Alphabet ==
    <<"\n", " ", "!", "#", "(", ")", "+", ",", "-", ".", "/",
      "0", "1", "2", "3", "4", "5", "6", "7", "8", "9", ":", "?",
      "A", "B", "C", "D", "E", "F", "G", "H", "I", "J", "K", "L", "M",
      "N", "O", "P", "Q", "R", "S", "T", "U", "V", "W", "X", "Y", "Z",
      "a", "b", "c", "d", "e", "f", "g", "h", "i", "j", "k", "l", "m",
      "n", "o", "p", "q", "r", "s", "t", "u", "v", "w", "x", "y", "z">>

Ord(c) == CHOOSE i \in 1..Len(Alphabet) : Alphabet[i] = c

Upper == <<"A", "B", "C", "D", "E", "F", "G", "H", "I", "J", "K", "L", "M",
           "N", "O", "P", "Q", "R", "S", "T", "U", "V", "W", "X", "Y", "Z">>
Lowers == <<"a", "b", "c", "d", "e", "f", "g", "h", "i", "j", "k", "l", "m",
            "n", "o", "p", "q", "r", "s", "t", "u", "v", "w", "x", "y", "z">>

LowerChar(c) ==
    IF \E i \in 1..26 : Upper[i] = c
    THEN Lowers[CHOOSE i \in 1..26 : Upper[i] = c]
    ELSE c

\* str.lower()
Lower(s) == [i \in 1..Len(s) |-> LowerChar(s[i])]

Digit == {"0", "1", "2", "3", "4", "5", "6", "7", "8", "9"}
Space == {" ", "\n"}

\* s[a:b] for 0 <= a, 0 <= b (Python's half-open slice, clipped to the string)
Slice(s, a, b) ==
    LET hi == IF b < Len(s) THEN b ELSE Len(s)
    IN  IF a >= hi THEN <<>> ELSE [i \in 1..(hi - a) |-> s[a + i]]

\* needle occurs in hay at 0-based offset p
MatchAt(hay, needle, p) ==
    /\ p + Len(needle) <= Len(hay)
    /\ \A i \in 1..Len(needle) : hay[p + i] = needle[i]

\* needle in hay
Contains(hay, needle) == \E p \in 0..Len(hay) : MatchAt(hay, needle, p)

\* a < b for str (lexicographic by code point)
StrLess(a, b) ==
    \E i \in 1..(Len(a) + 1) :
        /\ i <= Len(b)
        /\ \A j \in 1..(i - 1) : j <= Len(a) /\ a[j] = b[j]
        /\ (i = Len(a) + 1 \/ (i <= Len(a) /\ Ord(a[i]) < Ord(b[i])))

\* str(i) for 0 <= i < 100
Str(i) ==
    LET d(n) == <<"0", "1", "2", "3", "4", "5", "6", "7", "8", "9">>[n + 1]
    IN  IF i < 10 THEN <<d(i)>> ELSE <<d(i \div 10), d(i % 10)>>

RECURSIVE Concat(_)
\* "".join(parts)
Concat(parts) ==
    IF parts = <<>> THEN <<>>
    ELSE IF Len(parts) = 1 THEN parts[1]
    ELSE LET mid == Len(parts) \div 2
         IN  Concat(SubSeq(parts, 1, mid)) \o Concat(SubSeq(parts, mid + 1, Len(parts)))

\* the sequences over S of length at most n
SeqUpTo(S, n) == UNION {[1..m -> S] : m \in 0..n}

Range(f) == {f[i] : i \in DOMAIN f}

-----------------------------------------------------------------------------
(* app/index.py: the vector store and build_index                          *)

\* bounds of the indexer's inputs
MaxDocs == 2

\* every caller in the repository names the collection "docs"
CollectionNames == {"docs"}

\* a key the passage dict does not hold (what d.get falls back from)
NoField == "<absent>"

W1 == <<"w", "1">>
W2 == <<"w", "2">>
W3 == <<"w", "3">>

\* Passages {id, text, source, type}; a text is a sequence of words. Two
\* passages share the id "a" (the same record fetched on another day).
Passages ==
    { [id |-> <<"a">>, text |-> <<W1, W2>>,
       source |-> "alpha_vantage:overview", type |-> "api/alpha_vantage"],
      [id |-> <<"a">>, text |-> <<W3>>, source |-> NoField, type |-> NoField],
      [id |-> <<"b">>, text |-> <<>>,
       source |-> "alpha_vantage:digital_currency_daily", type |-> "api/alpha_vantage"] }

\* chunker: function(text) -> [chunks]
Chunkers == {"identity", "words", "none"}

Chunk(chunker, text) ==
    CASE chunker = "identity" -> <<text>>
      [] chunker = "words"    -> [i \in 1..Len(text) |-> <<text[i]>>]
      [] chunker = "none"     -> <<>>

\* f"{d['id']}#chunk{i}"
ChunkId(id, i) == id \o <<"#", "c", "h", "u", "n", "k">> \o Str(i)

\* d.get(key, default)
GetOr(v, default) == IF v = NoField THEN default ELSE v

\* the entries build_index makes of one passage: enumerate(chunker(d["text"]))
DocEntries(d, chunker) ==
    LET chunks == Chunk(chunker, d.text)
    IN  [j \in 1..Len(chunks) |->
            [id   |-> ChunkId(d.id, j - 1),
             text |-> chunks[j],
             meta |-> [source |-> GetOr(d.source, "alpha_vantage"),
                       chunk  |-> j - 1,
                       doc_id |-> d.id,
                       type   |-> GetOr(d.type, "api/alpha_vantage")]]]

RECURSIVE Batch(_, _)
\* the parallel lists ids, texts, metadatas of build_index, as one list of entries
Batch(docs, chunker) ==
    IF docs = <<>> THEN <<>>
    ELSE DocEntries(Head(docs), chunker) \o Batch(Tail(docs), chunker)

Ids(entries) == {e.id : e \in entries}

\* get_collection: client.get_collection(name), created when that raises
GetCollection(ex, name) == ex \cup {name}

\* col.delete(where={}) inside try/except: the store either drops every entry
\* or raises, and the exception is swallowed (deleted = FALSE)
AfterDelete(old, deleted) == IF deleted THEN {} ELSE old

\* col.add(ids, embeddings, documents, metadatas): the store refuses a batch that
\* names an id twice; entries whose id is already stored are either refused
\* (the add raises) or skipped, depending on the store (skips)
AddRaises(stored, batch, skips) ==
    \/ Cardinality(Ids(Range(batch))) # Len(batch)
    \/ (~skips /\ Ids(stored) \cap Ids(Range(batch)) # {})

AfterAdd(stored, batch, skips) ==
    IF AddRaises(stored, batch, skips) THEN stored
    ELSE stored \cup {e \in Range(batch) : e.id \notin Ids(stored)}

\* col.delete before the "if not texts" test: an empty build that clears the collection
BuildContentsClearFirst(old, batch, deleted, skips) ==
    IF batch = <<>> THEN AfterDelete(old, deleted)
    ELSE AfterAdd(AfterDelete(old, deleted), batch, skips)

\* the collection after build_index's lines 46-54
BuildContents(old, batch, deleted, skips) ==
    IF batch = <<>> THEN old
    ELSE AfterAdd(AfterDelete(old, deleted), batch, skips)

\* build_index(docs, chunker, collection_name)
BuildIndex(docs, chunker, name, deleted, skips) ==
    LET batch == Batch(docs, chunker)
        old   == cols[name]
        raised == batch # <<>> /\ AddRaises(AfterDelete(old, deleted), batch, skips)
    IN  /\ exists' = GetCollection(exists, name)
        /\ cols' = [cols EXCEPT ![name] = BuildContents(old, batch, deleted, skips)]
        /\ last' = [op |-> "build_index", name |-> name, batch |-> batch,
                    existed |-> name \in exists, before |-> old,
                    raised |-> raised,
                    ret |-> IF raised THEN -1 ELSE Len(batch)]
        /\ UNCHANGED <<getVars, ansVars, tsVars, apiVars, raceVars>>

\* the front-end's "Clear local index": get_collection("docs"); col.delete(where={})
ClearIndex(deleted) ==
    /\ exists' = GetCollection(exists, "docs")
    /\ cols' = [cols EXCEPT !["docs"] = AfterDelete(cols["docs"], deleted)]
    /\ last' = [op |-> "clear", name |-> "docs", batch |-> <<>>,
                existed |-> "docs" \in exists, before |-> cols["docs"],
                raised |-> ~deleted, ret |-> 0]
    /\ UNCHANGED <<getVars, ansVars, tsVars, apiVars, raceVars>>

-----------------------------------------------------------------------------
(* app/ingest_api.py: AVClient._get                                        *)

\* for _ in range(5)
MaxAttempts == 5

K_Note  == <<"N", "o", "t", "e">>
K_NOTE  == <<"N", "O", "T", "E">>
K_Error == <<"E", "r", "r", "o", "r", " ", "M", "e", "s", "s", "a", "g", "e">>
K_Info  == <<"I", "n", "f", "o", "r", "m", "a", "t", "i", "o", "n">>
K_Daily == <<"T", "i", "m", "e", " ", "S", "e", "r", "i", "e", "s", " ", "(", "D", "a", "i",
        "l", "y", ")">>

\* the keys a JSON object of the API may hold
ResponseKeys == {K_Note, K_NOTE, K_Error, K_Info, K_Daily}

\* what sess.get yields: a non-success status (raise_for_status raises), or a
\* JSON object, known by its keys
Responses ==
    {[status |-> "http_error", keys |-> {}]}
        \cup {[status |-> "ok", keys |-> ks] : ks \in SUBSET ResponseKeys}

\* k == "Note": the throttle test without k.lower()
IsThrottledCaseSensitive(keys) == K_Note \in keys

\* any(k.lower() == "note" for k in data.keys())
IsThrottled(keys) == \E k \in keys : Lower(k) = <<"n", "o", "t", "e">>

\* what one pass of the loop body does with response r
Outcome(r) ==
    CASE r.status # "ok"     -> "raise_http"
      [] r.status = "ok" /\ IsThrottled(r.keys) -> "sleep"
      [] r.status = "ok" /\ ~IsThrottled(r.keys) /\ K_Error \in r.keys -> "raise_error"
      [] OTHER -> "return"

\* a call of _get begins
GetCall ==
    /\ getPc \in {"idle", "returned", "raised"}
    /\ getPc' = "loop"
    /\ getReqs' = 0
    /\ getSleeps' = 0
    /\ getResp' = [status |-> "none", keys |-> {}]
    /\ getOut' = [kind |-> "none"]
    /\ UNCHANGED <<idxVars, ansVars, tsVars, apiVars, raceVars>>

\* one pass of the loop: the request, its response r, and what follows it; the
\* pass that uses up range(5) falls through to the final raise
GetAttempt(r) ==
    /\ getPc = "loop"
    /\ getReqs < MaxAttempts
    /\ getReqs' = getReqs + 1
    /\ getResp' = r
    /\ LET o == Outcome(r)
       IN  /\ getSleeps' = IF o = "sleep" THEN getSleeps + 1 ELSE getSleeps
           /\ getPc' = CASE o = "return" -> "returned"
                         [] o = "sleep" /\ getReqs + 1 < MaxAttempts -> "loop"
                         [] OTHER -> "raised"
           /\ getOut' = CASE o = "return" -> [kind |-> "data", keys |-> r.keys]
                          [] o = "raise_http" -> [kind |-> "HTTPError"]
                          [] o = "raise_error" -> [kind |-> "RuntimeError", msg |-> "Error Message"]
                          [] o = "sleep" /\ getReqs + 1 < MaxAttempts -> [kind |-> "none"]
                          [] OTHER -> [kind |-> "RuntimeError", msg |-> "retries exceeded"]
    /\ UNCHANGED <<idxVars, ansVars, tsVars, apiVars, raceVars>>

-----------------------------------------------------------------------------
(* app/rag_chain.py: the answer composer                                   *)

\* _company_keywords
CompanyKeywords ==
    { <<"c", "o", "m", "p", "a", "n", "y">>, <<"o", "v", "e", "r", "v", "i", "e", "w">>, <<"s",
            "u", "m", "m", "a", "r", "y">>, <<"p", "r", "o", "f", "i", "l", "e">>, <<"a", "b",
            "o", "u", "t">>,
      <<"h", "e", "a", "d", "q", "u", "a", "r", "t", "e", "r", "s">>, <<"s", "e", "c", "t", "o",
              "r">>, <<"i", "n", "d", "u", "s", "t", "r", "y">> }

\* _numeric_keywords
NumericKeywords == { <<"c", "l", "o", "s", "e">>, <<"o", "p", "e", "n">>, <<"v", "o", "l", "u",
        "m", "e">>, <<"h", "i", "g", "h">>, <<"l", "o", "w">>, <<"p", "r", "i", "c", "e">> }

\* _is_company_query
IsCompanyQuery(query) == \E k \in CompanyKeywords : Contains(Lower(query), k)

\* _contains_numeric_request
ContainsNumericRequest(query) == \E k \in NumericKeywords : Contains(Lower(query), k)

\* "overview" in doc_id.lower() or "overview" in type.lower()
IsOverview(ch) ==
    \/ Contains(Lower(ch.meta.doc_id), <<"o", "v", "e", "r", "v", "i", "e", "w">>)
    \/ Contains(Lower(ch.meta.type), <<"o", "v", "e", "r", "v", "i", "e", "w">>)

RECURSIVE InsertByScore(_, _)
\* ch put into an ascending list behind every entry whose score is not greater
InsertByScore(sorted, ch) ==
    IF sorted = <<>> THEN <<ch>>
    ELSE IF Head(sorted).score <= ch.score
         THEN <<Head(sorted)>> \o InsertByScore(Tail(sorted), ch)
         ELSE <<ch>> \o sorted

RECURSIVE SortBy(_, _)
\* sorted(chunks, key=score), with the first n entries of chunks: stable
SortBy(chunks, n) ==
    IF n = 0 THEN <<>> ELSE InsertByScore(SortBy(chunks, n - 1), chunks[n])

SortedByScore(chunks) == SortBy(chunks, Len(chunks))

\* one sort of all the chunks by score, without the two buckets
PrioritizeByScoreOnly(chunks) == SortedByScore(chunks)

\* _prioritize_chunks
PrioritizeChunks(chunks) ==
    LET overviews == SelectSeq(chunks, IsOverview)
        NotInOverviews(ch) == \A i \in 1..Len(overviews) : overviews[i] # ch
        others == SelectSeq(chunks, NotInOverviews)
    IN  SortedByScore(overviews) \o SortedByScore(others)

\* the templates' fixed parts
P_Extract   == <<"E", "x", "t", "r", "a", "c", "t", " ", "t", "h", "e", " ", "p", "r", "i", "c",
        "e", " ", "f", "r", "o", "m", " ", "t", "h", "i", "s", " ", "d", "a", "t", "a", ":",
        " ">>
P_Summarize == <<"S", "u", "m", "m", "a", "r", "i", "z", "e", " ", "t", "h", "i", "s", " ", "c",
        "o", "m", "p", "a", "n", "y", " ", "i", "n", "f", "o", "r", "m", "a", "t", "i", "o",
        "n", ":", " ">>
P_Context   == <<"C", "o", "n", "t", "e", "x", "t", ":", " ">>
P_Question  == <<"\n", "Q", "u", "e", "s", "t", "i", "o", "n", ":", " ">>
P_Answer    == <<"\n", "A", "n", "s", "w", "e", "r", ":">>

RECURSIVE ContextSimple(_)
\* context_simple: chunk['text'][:200] + "\n" for each of the chunks
ContextSimple(chunks) ==
    IF chunks = <<>> THEN <<>>
    ELSE Slice(Head(chunks).text, 0, 200) \o <<"\n">> \o ContextSimple(Tail(chunks))

\* the company test before the numeric test
BuildPromptCompanyFirst(query, chunks) ==
    IF IsCompanyQuery(query) /\ chunks # <<>>
    THEN P_Summarize \o Slice(chunks[1].text, 0, 400) \o P_Question \o query \o P_Answer
    ELSE IF ContainsNumericRequest(query) /\ chunks # <<>>
    THEN P_Extract \o chunks[1].text \o P_Question \o query \o P_Answer
    ELSE P_Context \o ContextSimple(Slice(chunks, 0, 2)) \o <<"\n">> \o P_Question
             \o query \o P_Answer

\* _build_prompt
BuildPrompt(query, chunks) ==
    IF ContainsNumericRequest(query) /\ chunks # <<>>
    THEN P_Extract \o chunks[1].text \o P_Question \o query \o P_Answer
    ELSE IF IsCompanyQuery(query) /\ chunks # <<>>
    THEN P_Summarize \o Slice(chunks[1].text, 0, 400) \o P_Question \o query \o P_Answer
    ELSE P_Context \o ContextSimple(Slice(chunks, 0, 2)) \o <<"\n">> \o P_Question
             \o query \o P_Answer

\* the length of the longest prefix of s[p:] (0-based p) whose characters are in S
RunLen(s, p, S) ==
    LET stops == {n \in 0..(Len(s) - p) : n = Len(s) - p \/ s[p + n + 1] \notin S}
    IN  IF p >= Len(s) THEN 0
        ELSE CHOOSE n \in stops : \A m \in stops : n <= m

\* str.strip()
Strip(s) ==
    LET lead == RunLen(s, 0, Space)
        keep == {n \in lead..Len(s) : n = lead \/ s[n] \notin Space}
        end  == CHOOSE n \in keep : \A m \in keep : m <= n
    IN  Slice(s, lead, end)

\* str.isdigit()
IsDigitStr(s) == s # <<>> /\ \A i \in 1..Len(s) : s[i] \in Digit

\* str.replace(old, new) for a one-character old
Replace(s, old, new) ==
    Concat([i \in 1..Len(s) |-> IF s[i] = old THEN new ELSE <<s[i]>>])

\* re.search(r'close\s+([0-9,]+\.?[0-9]*)', text, re.IGNORECASE): group(1) of the
\* leftmost match, or None
CloseMatch(text) ==
    LET low == Lower(text)
        Starts(p) ==
            /\ MatchAt(low, <<"c", "l", "o", "s", "e">>, p)
            /\ RunLen(text, p + 5, Space) >= 1
            /\ RunLen(text, p + 5 + RunLen(text, p + 5, Space), Digit \cup {","}) >= 1
        hits == {p \in 0..Len(text) : Starts(p)}
    IN  IF hits = {} THEN None
        ELSE LET p  == CHOOSE q \in hits : \A r \in hits : q <= r
                 g  == p + 5 + RunLen(text, p + 5, Space)
                 n1 == RunLen(text, g, Digit \cup {","})
                 dot == IF g + n1 < Len(text) /\ text[g + n1 + 1] = "." THEN 1 ELSE 0
                 n2 == RunLen(text, g + n1 + dot, Digit)
             IN  Slice(text, g, g + n1 + dot + n2)

\* _NUMERIC_RE.findall(text)[0], or None when nothing matches:
\* [-+]?\d{1,3}(?:[,\d]{0,})?(?:\.\d+)?
FirstNumeric(text) ==
    LET IsDigitAt(p) == p < Len(text) /\ text[p + 1] \in Digit
        Starts(p) ==
            \/ IsDigitAt(p)
            \/ (p < Len(text) /\ text[p + 1] \in {"-", "+"} /\ IsDigitAt(p + 1))
        hits == {p \in 0..Len(text) : Starts(p)}
    IN  IF hits = {} THEN None
        ELSE LET p  == CHOOSE q \in hits : \A r \in hits : q <= r
                 d  == IF IsDigitAt(p) THEN p ELSE p + 1
                 n1 == RunLen(text, d, Digit \cup {","})
                 n2 == IF d + n1 < Len(text) /\ text[d + n1 + 1] = "."
                       THEN RunLen(text, d + n1 + 1, Digit) ELSE 0
             IN  Slice(text, p, d + n1 + (IF n2 > 0 THEN 1 + n2 ELSE 0))

\* _extract_numeric_from_text
ExtractNumericFromText(text) ==
    IF FirstNumeric(text) = None THEN <<>>
    ELSE Replace(FirstNumeric(text), ",", <<>>)

\* s.rsplit(" ", 1)[0]
RSplitHead(s) ==
    LET sp == {i \in 1..Len(s) : s[i] = " "}
    IN  IF sp = {} THEN s
        ELSE Slice(s, 0, (CHOOSE i \in sp : \A j \in sp : j <= i) - 1)

\* _first_sentence
FirstSentence(raw) ==
    LET text == Replace(Strip(raw), "\n", <<" ">>)
        ends == {j \in 2..(Len(text) - 1) :
                    text[j] \in {".", "!", "?"} /\ text[j + 1] \in Space}
    IN  IF ends # {}
        THEN Slice(text, 0, CHOOSE j \in ends : \A k \in ends : j <= k)
        ELSE RSplitHead(Slice(text, 0, 200))
                 \o (IF Len(text) > 200 THEN <<".", ".", ".">> ELSE <<>>)

\* CHUNK_MAX_CHARS
CHUNK_MAX_CHARS == 800

\* _shorten_text (called by _format_context only, which nothing calls)
ShortenText(text) ==
    IF text = <<>> THEN <<>>
    ELSE IF Len(text) <= CHUNK_MAX_CHARS THEN text
    ELSE RSplitHead(Slice(text, 0, CHUNK_MAX_CHARS)) \o <<" ", ".", ".", ".">>

A_DontKnow  == <<"I", " ", "d", "o", "n", "'", "t", " ", "k", "n", "o", "w", ".">>
A_BtcClose  == <<"B", "T", "C", " ", "c", "l", "o", "s", "e", " ", "p", "r", "i", "c", "e", ":",
        " ">>
A_Price     == <<"P", "r", "i", "c", "e", ":", " ">>

\* the isdigit() test left out of line 113
IsFailedGenerationNoDigits(answer_text) == answer_text = <<>> \/ Len(answer_text) <= 3

\* not answer_text or len(answer_text) <= 3 or answer_text.isdigit()
IsFailedGeneration(answer_text) ==
    answer_text = <<>> \/ Len(answer_text) <= 3 \/ IsDigitStr(answer_text)

\* lines 113-135 of answer(): the text returned for the stripped generator
\* output and the chunks of the prompt
AnswerText(query, chunks, answer_text) ==
    IF IsFailedGeneration(answer_text)
    THEN LET text == chunks[1].text
             numeric == ContainsNumericRequest(query) /\ chunks # <<>>
         IN  IF numeric /\ Contains(Lower(text), <<"c", "l", "o", "s",
                 "e">>) /\ CloseMatch(text) # None
             THEN A_BtcClose \o CloseMatch(text)
             ELSE IF numeric /\ ExtractNumericFromText(text) # <<>>
             THEN A_Price \o ExtractNumericFromText(text)
             ELSE IF chunks # <<>>
             THEN FirstSentence(text)
             ELSE A_DontKnow
    ELSE answer_text

\* answer(query, k): candidates is what retrieve(query, k) returned and out what
\* the generator made of the prompt
Answer ==
    /\ ansOut.pc = "idle"
    /\ LET prioritized == PrioritizeChunks(ansIn.candidates)
           chunks_for_prompt == Slice(prioritized, 0, 4)
       IN  ansOut' = [pc |-> "done",
                      prioritized |-> prioritized,
                      prompt |-> BuildPrompt(ansIn.query, chunks_for_prompt),
                      answer |-> AnswerText(ansIn.query, chunks_for_prompt,
                                            Strip(ansIn.out)),
                      fallback |-> IsFailedGeneration(Strip(ansIn.out)),
                      chunks |-> chunks_for_prompt]
    /\ UNCHANGED <<ansIn, idxVars, getVars, tsVars, apiVars, raceVars>>

-----------------------------------------------------------------------------
(* app/ingest_api.py: the time-series passage builders                     *)

\* A JSON object is a sequence of <<key, value>> pairs in document order, its
\* keys distinct; a series is a function from its dates to rows.

\* dict.get(key)
Get(obj, key) ==
    IF \E i \in 1..Len(obj) : obj[i][1] = key
    THEN obj[CHOOSE i \in 1..Len(obj) : obj[i][1] = key][2]
    ELSE None

\* next((... for k, v in obj.items() if ...), None): the first of the pairs at
\* the indexes hits
FirstAt(obj, hits) ==
    IF hits = {} THEN None
    ELSE obj[CHOOSE i \in hits : \A j \in hits : i <= j]

\* a or b
Or(a, b) == IF a = None \/ a = <<>> THEN b ELSE a

\* {v} inside an f-string
Fmt(v) == IF v = None THEN <<"N", "o", "n", "e">> ELSE v

RECURSIVE SortDesc(_)
\* sorted(dates, reverse=True)
SortDesc(dates) ==
    IF dates = {} THEN <<>>
    ELSE LET top == CHOOSE d \in dates : \A e \in dates : e = d \/ StrLess(e, d)
         IN  <<top>> \o SortDesc(dates \ {top})

\* sorted(series.items(), key=lambda x: x[0], reverse=True)[:max_days], its dates
Items(series, max_days) == Slice(SortDesc(DOMAIN series), 0, max_days)

\* the stock passage of one date
StockPassage(symbol, date, row) ==
    LET o == Get(row, <<"1", ".", " ", "o", "p", "e", "n">>)
        h == Get(row, <<"2", ".", " ", "h", "i", "g", "h">>)
        l == Get(row, <<"3", ".", " ", "l", "o", "w">>)
        c == Or(Get(row, <<"4", ".", " ", "c", "l", "o", "s", "e">>), Get(row, <<"5", ".", " ",
                "a", "d", "j", "u", "s", "t", "e", "d", " ", "c", "l", "o", "s", "e">>))
        v == Or(Or(Get(row, <<"6", ".", " ", "v", "o", "l", "u", "m", "e">>), Get(row, <<"5",
                ".", " ", "v", "o", "l", "u", "m", "e">>)), Get(row, <<"v", "o", "l", "u", "m",
                "e">>))
    IN  symbol \o <<" ", "d", "a", "i", "l", "y", " ", "b", "a", "r", " ", "o", "n",
            " ">> \o date \o <<":", " ", "o", "p", "e", "n", " ">> \o Fmt(o) \o <<",", " ", "h",
            "i", "g", "h", " ">> \o Fmt(h)
            \o <<",", " ", "l", "o", "w", " ">> \o Fmt(l) \o <<",", " ", "c", "l", "o", "s",
                    "e", " ">> \o Fmt(c) \o <<",", " ", "v", "o", "l", "u", "m", "e",
                    " ">> \o Fmt(v) \o <<".">>

\* "Time Series" in k
IsStockSeriesKey(k) == Contains(k, <<"T", "i", "m", "e", " ", "S", "e", "r", "i", "e", "s">>)

\* _ts_stock_passages
TsStockPassages(symbol, ts_json, max_days) ==
    LET hit == FirstAt(ts_json, {i \in 1..Len(ts_json) : IsStockSeriesKey(ts_json[i][1])})
    IN  IF hit = None \/ hit[1] = <<>> THEN <<>>
        ELSE LET series == hit[2]
                 items  == Items(series, max_days)
             IN  [i \in 1..Len(items) |-> StockPassage(symbol, items[i], series[items[i]])]

\* the "(market)" variants of a numbered key: f"{n}a. {field} ({market})"
MarketKey(n, ab, field, market) ==
    n \o ab \o <<".", " ">> \o field \o <<" ", "(">> \o market \o <<")">>

\* "close" in k.lower()
HasClose(k) == Contains(Lower(k), <<"c", "l", "o", "s", "e">>)

\* the crypto passage of one date
CryptoPassage(symbol, market, date, row) ==
    LET Variant(n, field) ==
            Or(Get(row, MarketKey(n, <<"a">>, field, market)),
               Get(row, MarketKey(n, <<"b">>, field, market)))
        o1 == Get(row, <<"1", ".", " ", "o", "p", "e", "n">>)
        h1 == Get(row, <<"2", ".", " ", "h", "i", "g", "h">>)
        l1 == Get(row, <<"3", ".", " ", "l", "o", "w">>)
        c1 == Get(row, <<"4", ".", " ", "c", "l", "o", "s", "e">>)
        v  == Or(Get(row, <<"5", ".", " ", "v", "o", "l", "u", "m", "e">>), Get(row, <<"6", ".",
                " ", "m", "a", "r", "k", "e", "t", " ", "c", "a", "p", " ", "(", "u", "s", "d",
                ")">>))
        o  == IF o1 = None THEN Variant(<<"1">>, <<"o", "p", "e", "n">>) ELSE o1
        h  == IF h1 = None THEN Variant(<<"2">>, <<"h", "i", "g", "h">>) ELSE h1
        l  == IF l1 = None THEN Variant(<<"3">>, <<"l", "o", "w">>) ELSE l1
        c2 == IF c1 = None THEN Variant(<<"4">>, <<"c", "l", "o", "s", "e">>) ELSE c1
        closes == {i \in 1..Len(row) : HasClose(row[i][1])}
        c  == IF c2 = None
              THEN (IF closes = {} THEN None ELSE FirstAt(row, closes)[2])
              ELSE c2
    IN  symbol \o <<"/">> \o market \o <<" ", "o", "n", " ">> \o date \o <<":", " ", "o", "p",
            "e", "n", " ">> \o Fmt(o) \o <<",", " ", "h", "i", "g", "h", " ">>
            \o Fmt(h) \o <<",", " ", "l", "o", "w", " ">> \o Fmt(l) \o <<",", " ", "c", "l",
                    "o", "s", "e", " ">> \o Fmt(c) \o <<",", " ", "v", "o", "l", "u", "m", "e",
                    " ">>
            \o Fmt(v) \o <<".">>

\* "time series" in k.lower()
IsCryptoSeriesKey(k) == Contains(Lower(k), <<"t", "i", "m", "e", " ", "s", "e", "r", "i", "e",
        "s">>)

\* _ts_crypto_passages
TsCryptoPassages(symbol, market, json_obj, max_days) ==
    LET hit == FirstAt(json_obj, {i \in 1..Len(json_obj) : IsCryptoSeriesKey(json_obj[i][1])})
    IN  IF hit = None \/ hit[1] = <<>> THEN <<>>
        ELSE LET series == hit[2]
                 items  == Items(series, max_days)
             IN  [i \in 1..Len(items) |->
                     CryptoPassage(symbol, market, items[i], series[items[i]])]

\* _ts_stock_passages(symbol, ts_json, max_days)
StockPassages ==
    /\ tsOut.pc = "idle"
    /\ tsIn.fn = "stock"
    /\ tsOut' = [pc |-> "done",
                 out |-> TsStockPassages(tsIn.symbol, tsIn.json, tsIn.max_days)]
    /\ UNCHANGED <<tsIn, idxVars, getVars, ansVars, apiVars, raceVars>>

\* _ts_crypto_passages(symbol, market, json_obj, max_days)
CryptoPassages ==
    /\ tsOut.pc = "idle"
    /\ tsIn.fn = "crypto"
    /\ tsOut' = [pc |-> "done",
                 out |-> TsCryptoPassages(tsIn.symbol, tsIn.market, tsIn.json,
                                          tsIn.max_days)]
    /\ UNCHANGED <<tsIn, idxVars, getVars, ansVars, apiVars, raceVars>>

-----------------------------------------------------------------------------
(* app/ingest_api.py: build_api_docs                                       *)

\* the three characters the source file holds between title and summary
Dash == <<"<U+00E2>", "<U+20AC>", "<U+201D>">>

RECURSIVE Join(_, _)
\* sep.join(lines)
Join(lines, sep) ==
    IF lines = <<>> THEN <<>>
    ELSE IF Len(lines) = 1 THEN lines[1]
    ELSE lines[1] \o sep \o Join(Tail(lines), sep)

\* not isinstance(v, (dict, list)); a pair of kv is <<key, value, kind>>
IsScalar(pair) == pair[3] \notin {"dict", "list"}

\* _kv_to_text
KvToText(title, kv) ==
    LET kept == SelectSeq(kv, IsScalar)
    IN  Join(<<title \o <<":">> >>
                \o [i \in 1..Len(kept) |-> <<"-", " ">> \o kept[i][1] \o <<":",
                        " ">> \o Fmt(kept[i][2])],
             <<"\n">>)

\* datetime.strptime(dt, "%Y%m%dT%H%M%S") accepts dt (of the forms the feeds
\* below hold: fourteen digits around a "T", or no timestamp at all)
IsTimestamp(dt) ==
    /\ Len(dt) = 15
    /\ dt[9] = "T"
    /\ \A i \in (1..15) \ {9} : dt[i] \in Digit

\* .strftime("%Y-%m-%d %H:%M:%S") if dt else "", and dt or "" when strptime raises
NewsTime(dt) ==
    IF dt = None \/ dt = <<>> THEN <<>>
    ELSE IF IsTimestamp(dt)
    THEN Slice(dt, 0, 4) \o <<"-">> \o Slice(dt, 4, 6) \o <<"-">> \o Slice(dt, 6, 8)
            \o <<" ">> \o Slice(dt, 9, 11) \o <<":">> \o Slice(dt, 11, 13)
            \o <<":">> \o Slice(dt, 13, 15)
    ELSE dt

\* the text of one news doc
NewsText(item) ==
    <<"N", "e", "w", "s", " ", "o", "n", " ">> \o NewsTime(Get(item, <<"t", "i", "m", "e", "_",
            "p", "u", "b", "l", "i", "s", "h", "e", "d">>)) \o <<":", " ">>
        \o Fmt(Get(item, <<"t", "i", "t", "l", "e">>)) \o <<" ">> \o Dash \o <<" ">>
        \o Fmt(Get(item, <<"s", "u", "m", "m", "a", "r", "y">>)) \o <<" ", "[", "s", "e", "n",
                "t", "i", "m", "e", "n", "t", ":", " ">>
        \o Fmt(Get(item, <<"o", "v", "e", "r", "a", "l", "l", "_", "s", "e", "n", "t", "i", "m",
                "e", "n", "t", "_", "l", "a", "b", "e", "l">>)) \o <<"]", " ", "S", "o", "u",
                "r", "c", "e", ":", " ">>
        \o Fmt(Get(item, <<"s", "o", "u", "r", "c", "e">>)) \o <<".", " ", "U", "R", "L", ":",
                " ">> \o Fmt(Get(item, <<"u", "r", "l">>))

\* news_json.get("feed", [])[:40]
FeedLimit == 40

Doc(id, text, source) ==
    [id |-> id, text |-> text, source |-> source, type |-> "api/alpha_vantage"]

\* what the service answers: client.overview(sym)
OverviewOf(sym) ==
    << <<<<"S", "y", "m", "b", "o", "l">>, sym, "str">>, <<<<"S", "e", "c", "t", "o",
            "r">>, <<"T", "E", "C", "H", "N", "O", "L", "O", "G", "Y">>, "str">>,
       <<<<"O", "f", "f", "i", "c", "e", "r", "s">>, <<>>, "list">> >>

\* client.daily_adjusted(sym, outputsize): two dated rows
DailyOf(sym) ==
    << <<<<"M", "e", "t", "a", " ", "D", "a", "t", "a">>, <<>> >>,
       <<<<"T", "i", "m", "e", " ", "S", "e", "r", "i", "e", "s", " ", "(", "D", "a", "i", "l",
               "y", ")">>,
         [d \in {<<"2", "0", "2", "4", "-", "0", "1", "-", "0", "5">>, <<"2", "0", "2", "4",
                 "-", "0", "1", "-", "0", "4">>} |->
            << <<<<"1", ".", " ", "o", "p", "e", "n">>, <<"1", "0">>>>, <<<<"4", ".", " ", "c",
                    "l", "o", "s", "e">>, <<"1", "1">>>>, <<<<"6", ".", " ", "v", "o", "l", "u",
                    "m", "e">>, <<"1", "0", "0">>>> >>] >> >>

\* client.earnings(sym)
EarningsOf(sym) ==
    << <<<<"s", "y", "m", "b", "o", "l">>, sym, "str">>, <<<<"a", "n", "n", "u", "a", "l", "E",
            "a", "r", "n", "i", "n", "g", "s">>, <<>>, "list">>,
       <<<<"q", "u", "a", "r", "t", "e", "r", "l", "y", "E", "a", "r", "n", "i", "n", "g",
               "s">>, <<>>, "list">> >>

\* client.crypto_daily(sym, market): two dated rows
CryptoDailyOf(sym, market) ==
    << <<<<"M", "e", "t", "a", " ", "D", "a", "t", "a">>, <<>> >>,
       <<<<"T", "i", "m", "e", " ", "S", "e", "r", "i", "e", "s", " ", "(", "D", "i", "g", "i",
               "t", "a", "l", " ", "C", "u", "r", "r", "e", "n", "c", "y", " ", "D", "a", "i",
               "l", "y", ")">>,
         [d \in {<<"2", "0", "2", "4", "-", "0", "1", "-", "0", "5">>, <<"2", "0", "2", "4",
                 "-", "0", "1", "-", "0", "4">>} |->
            << <<<<"1", ".", " ", "o", "p", "e", "n">>, <<"1", "0">>>>, <<<<"4", ".", " ", "c",
                    "l", "o", "s", "e">>, <<"1", "1">>>>, <<<<"5", ".", " ", "v", "o", "l", "u",
                    "m", "e">>, <<"3">>>> >>] >> >>

\* client.news(universe, limit=40): the feed of the response
FeedOf(universe) ==
    << << <<<<"t", "i", "m", "e", "_", "p", "u", "b", "l", "i", "s", "h", "e", "d">>, <<"2",
            "0", "2", "4", "0", "1", "0", "5", "T", "0", "9", "3", "0", "0", "0">>>>, <<<<"t",
            "i", "t", "l", "e">>, <<"U", "p">>>>,
          <<<<"s", "u", "m", "m", "a", "r", "y">>, <<"S", "h", "a", "r", "e", "s", " ", "r",
                  "o", "s", "e">>>>, <<<<"s", "o", "u", "r", "c", "e">>, <<"W", "i", "r",
                  "e">>>> >>,
       << <<<<"t", "i", "t", "l", "e">>, <<"F", "l", "a", "t">>>>, <<<<"t", "i", "m", "e", "_",
               "p", "u", "b", "l", "i", "s", "h", "e", "d">>, <<"n", "/", "a">>>> >> >>

\* the docs of one equity symbol (lines 158-182)
StockDocs(sym, days, include_overview, include_earnings) ==
    LET ps == TsStockPassages(sym, DailyOf(sym), days)
    IN  (IF include_overview
         THEN <<Doc(<<"a", "v", "/">> \o sym \o <<"/", "o", "v", "e", "r", "v", "i", "e", "w">>,
                    KvToText(sym \o <<" ", "C", "o", "m", "p", "a", "n", "y", " ", "O", "v",
                            "e", "r", "v", "i", "e", "w">>, OverviewOf(sym)),
                    "alpha_vantage:overview")>>
         ELSE <<>>)
        \o [i \in 1..Len(ps) |->
                Doc(<<"a", "v", "/">> \o sym \o <<"/", "d", "a", "i", "l", "y",
                        "#">> \o Str(i - 1), ps[i],
                    "alpha_vantage:time_series_daily_adjusted")]
        \o (IF include_earnings
            THEN <<Doc(<<"a", "v", "/">> \o sym \o <<"/", "e", "a", "r", "n", "i", "n", "g",
                    "s">>,
                       KvToText(sym \o <<" ", "E", "a", "r", "n", "i", "n", "g", "s", " ", "(",
                               "A", "V", ")">>, EarningsOf(sym)),
                       "alpha_vantage:earnings")>>
            ELSE <<>>)

\* the docs of one crypto symbol (lines 185-193)
CryptoDocs(sym, market, days) ==
    LET ps == TsCryptoPassages(sym, market, CryptoDailyOf(sym, market), days)
    IN  [i \in 1..Len(ps) |->
            Doc(<<"a", "v", "/">> \o sym \o <<"-">> \o market \o <<"/", "d", "i", "g", "i", "t",
                    "a", "l", "_", "d", "a", "i", "l", "y", "#">> \o Str(i - 1),
                ps[i], "alpha_vantage:digital_currency_daily")]

\* the news docs (lines 196-215)
NewsDocs(stocks, crypto, include_news) ==
    LET universe == IF stocks # <<>> THEN Join(stocks, <<",">>) ELSE <<>>
    IN  IF include_news /\ (stocks # <<>> \/ crypto # <<>>) /\ universe # <<>>
        THEN LET feed == Slice(FeedOf(universe), 0, FeedLimit)
             IN  [j \in 1..Len(feed) |->
                    Doc(<<"a", "v", "/", "n", "e", "w", "s",
                            "#">> \o Str(j - 1), NewsText(feed[j]),
                        "alpha_vantage:news_sentiment")]
        ELSE <<>>

\* build_api_docs, the list it returns
BuildApiDocsList(in) ==
    Concat([i \in 1..Len(in.stocks) |->
                StockDocs(in.stocks[i], in.days, in.include_overview, in.include_earnings)])
        \o Concat([i \in 1..Len(in.crypto) |-> CryptoDocs(in.crypto[i], in.market, in.days)])
        \o NewsDocs(in.stocks, in.crypto, in.include_news)

\* build_api_docs: AVClient(ALPHA_VANTAGE_KEY) raises when the key is missing
BuildApiDocs ==
    /\ apiOut.pc = "idle"
    /\ apiOut' = IF apiIn.key THEN [pc |-> "done", docs |-> BuildApiDocsList(apiIn)]
                              ELSE [pc |-> "raised"]
    /\ UNCHANGED <<apiIn, idxVars, getVars, ansVars, tsVars, raceVars>>

-----------------------------------------------------------------------------
(* the states in which a component has not been called                     *)

IdleIndex ==
    /\ exists = {}
    /\ cols = [n \in CollectionNames |-> {}]
    /\ last = [op |-> "none", name |-> "docs", batch |-> <<>>, existed |-> FALSE,
               before |-> {}, raised |-> FALSE, ret |-> 0]

IdleGet ==
    /\ getPc = "idle"
    /\ getReqs = 0
    /\ getSleeps = 0
    /\ getResp = [status |-> "none", keys |-> {}]
    /\ getOut = [kind |-> "none"]

IdleAnswer ==
    /\ ansIn = [query |-> <<>>, candidates |-> <<>>, out |-> <<>>]
    /\ ansOut = [pc |-> "idle"]

IdleTs ==
    /\ tsIn = [fn |-> "none"]
    /\ tsOut = [pc |-> "idle"]

IdleApi ==
    /\ apiIn = [stocks |-> <<>>, crypto |-> <<>>]
    /\ apiOut = [pc |-> "idle"]

IdleRace ==
    /\ build = [pc |-> "idle", n |-> 0, batch |-> <<>>, before |-> {}, cleared |-> FALSE]
    /\ seen = [pc |-> "idle", result |-> {}, during |-> "idle", n |-> 0, cleared |-> FALSE]

-----------------------------------------------------------------------------
(* Spec: the store under build_index and the front-end's clear             *)

Init == IdleIndex /\ IdleGet /\ IdleAnswer /\ IdleTs /\ IdleApi /\ IdleRace

Next ==
    \/ \E docs \in SeqUpTo(Passages, MaxDocs), chunker \in Chunkers,
          name \in CollectionNames, deleted \in BOOLEAN, skips \in BOOLEAN :
            BuildIndex(docs, chunker, name, deleted, skips)
    \/ \E deleted \in BOOLEAN : ClearIndex(deleted)

Spec == Init /\ [][Next]_vars

-----------------------------------------------------------------------------
(* SpecGet: calls of AVClient._get against every sequence of responses     *)

NextGet ==
    \/ GetCall
    \/ \E r \in Responses : GetAttempt(r)

SpecGet == Init /\ [][NextGet]_vars
-----------------------------------------------------------------------------
(* The claims about the indexer (under Spec)                               *)

BuiltOk == last.op = "build_index" /\ ~last.raised

\* C1: after any build_index call that returns n > 0, whatever the collection
\* held before, the collection holds exactly the n chunks of that call: none
\* duplicated, none of an earlier call left over.
C1_FullReplacement ==
    (BuiltOk /\ last.ret > 0) =>
        /\ cols[last.name] = Range(last.batch)
        /\ Cardinality(cols[last.name]) = last.ret

\* C2 as stated: build_index with no chunks returns 0, leaves the collection's
\* entries untouched and leaves the collection absent or empty, whatever it held
\* before.
C2_EmptyBuildLeavesEmpty ==
    (last.op = "build_index" /\ last.batch = <<>>) =>
        /\ last.ret = 0
        /\ cols[last.name] = last.before
        /\ (last.name \notin exists \/ cols[last.name] = {})

\* C2 amended: build_index with no chunks returns 0 without raising and leaves
\* the collection's entries as they were; the collection exists afterwards
\* (get_collection creates it when it was absent).
C2_EmptyBuildKeepsContents ==
    (last.op = "build_index" /\ last.batch = <<>>) =>
        /\ last.ret = 0
        /\ ~last.raised
        /\ cols[last.name] = last.before
        /\ last.name \in exists

\* an empty build has run on a collection that an earlier build populated
C2_Witness ==
    /\ last.op = "build_index"
    /\ last.batch = <<>>
    /\ last.before # {}
    /\ cols[last.name] = last.before

\* C11: the chunk ids "<passage.id>#chunk<i>" that one build_index call
\* generates are pairwise distinct, for any Passage list and any chunker: the
\* batch handed to col.add never carries the same id twice.
C11_ChunkIdsDistinct ==
    (last.op = "build_index") =>
        \A i, j \in 1..Len(last.batch) :
            (i # j) => (last.batch[i].id # last.batch[j].id)

-----------------------------------------------------------------------------
(* The claims about AVClient._get (under SpecGet)                          *)

\* the throttling signal as the interface states it: a key equal to "note",
\* ignoring case
CarriesNote(keys) ==
    \E k \in keys : Len(k) = 4 /\ LowerChar(k[1]) = "n" /\ LowerChar(k[2]) = "o"
                    /\ LowerChar(k[3]) = "t" /\ LowerChar(k[4]) = "e"

\* C3: _get issues at most 5 requests; a payload that is neither throttled nor
\* an error is returned as it is, on the attempt it arrives, after nothing but
\* throttled attempts; five throttled responses raise "retries exceeded", and
\* nothing else does.
C3_ThrottleRetryBounded ==
    /\ getReqs <= 5
    /\ getSleeps <= getReqs
    /\ (getResp.status = "ok" /\ ~CarriesNote(getResp.keys) /\ K_Error \notin getResp.keys)
          => /\ getPc = "returned"
             /\ getOut = [kind |-> "data", keys |-> getResp.keys]
             /\ getSleeps = getReqs - 1
    /\ getPc = "returned" => ~CarriesNote(getOut.keys)
    /\ getSleeps = 5
          <=> (getPc = "raised" /\ getOut = [kind |-> "RuntimeError", msg |-> "retries exceeded"])
    /\ getPc = "loop" => (getSleeps = getReqs /\ getReqs < 5)

\* throttle, throttle, valid: the third response is returned
C3_Witness ==
    /\ getPc = "returned"
    /\ getReqs = 3
    /\ getSleeps = 2
    /\ getOut = [kind |-> "data", keys |-> {K_Daily}]

\* C4: a response that carries "Error Message", whatever else it carries,
\* raises the upstream message on that attempt, without a sleep; a response is
\* retried only if it carries the throttling signal and no error field.
C4_ErrorIsImmediate ==
    /\ (getResp.status = "ok" /\ K_Error \in getResp.keys)
          => /\ getPc = "raised"
             /\ getOut = [kind |-> "RuntimeError", msg |-> "Error Message"]
             /\ getSleeps = getReqs - 1
    /\ (getPc = "loop" /\ getReqs > 0)
          => (CarriesNote(getResp.keys) /\ K_Error \notin getResp.keys)
-----------------------------------------------------------------------------
(* SpecAnswer: answer() on every query, retrieval result and generator      *)
(* output of the sets below                                                 *)

\* the longest retrieval result drawn freely from Retrieved
MaxCands == 2

Queries ==
    { <<"W", "h", "a", "t", " ", "w", "a", "s", " ", "B", "T", "C", " ", "c", "l", "o", "s",
            "e", "?">>,           \* numeric
      <<"S", "u", "m", "m", "a", "r", "i", "z", "e", " ", "c", "o", "m", "p", "a", "n", "y",
              " ", "o", "v", "e", "r", "v", "i", "e", "w">>,    \* company
      <<"c", "o", "m", "p", "a", "n", "y", " ", "P", "R", "I", "C",
              "E">>,                 \* numeric and company
      <<"T", "e", "l", "l", " ", "m", "e", " ", "A", "b", "o", "u", "t", " ", "i",
              "t">>,              \* company, by case folding
      <<"w", "h", "o", " ", "f", "o", "l", "l", "o", "w", "s", " ", "i",
              "t">>,                \* numeric, by the substring "low"
      <<"h", "e", "l", "l", "o">> }                        \* general

T_Bar      == <<"B", "T", "C", " ", "o", "n", " ", "2", "0", "2", "4", "-", "0", "1", "-", "0",
        "5", ":", " ", "o", "p", "e", "n", " ", "4", "2", ",", "0", "0", "0", ".", "5", ",",
        " ", "c", "l", "o", "s", "e", " ", "4", "2", ",", "3", "5", "0", ".", "1", "0", " ",
        "v", "o", "l", "u", "m", "e", " ", "7", ".">>
T_Overview == <<"A", "A", "P", "L", " ", "C", "o", "m", "p", "a", "n", "y", " ", "O", "v", "e",
        "r", "v", "i", "e", "w", ":", "\n", "-", " ", "N", "a", "m", "e", ":", " ", "A", "p",
        "p", "l", "e", " ", "I", "n", "c", ".", " ", "S", "e", "c", "t", "o", "r", ":", " ",
        "T", "E", "C", "H">>
T_Volume   == <<"v", "o", "l", " ", "1", ",", "2", "3", "4", " ", "s", "h", "a", "r", "e", "s",
        " ", "t", "o", "d", "a", "y">>
T_NoNumber == <<"C", "l", "o", "s", "e", " ", "u", "n", "k", "n", "o", "w", "n", "!", " ", "s",
        "e", "e", " ", "l", "a", "t", "e", "r">>

D_Daily    == <<"a", "v", "/", "B", "T", "C", "-", "U", "S", "D", "/", "d", "i", "g", "i", "t",
        "a", "l", "_", "d", "a", "i", "l", "y", "#", "0">>
D_Overview == <<"a", "v", "/", "A", "A", "P", "L", "/", "o", "v", "e", "r", "v", "i", "e", "w">>
Ty_Api     == <<"a", "p", "i", "/", "a", "l", "p", "h", "a", "_", "v", "a", "n", "t", "a", "g",
        "e">>
Ty_Over    == <<"a", "p", "i", "/", "O", "v", "e", "r", "v", "i", "e", "w">>

\* chunks as retrieve() returns them: {text, meta, score}
Retrieved ==
    { [text |-> T_Bar,      meta |-> [doc_id |-> D_Daily,    type |-> Ty_Api],  score |-> 1],
      [text |-> T_Bar,      meta |-> [doc_id |-> D_Daily,    type |-> Ty_Api],  score |-> 3],
      [text |-> T_Overview, meta |-> [doc_id |-> D_Overview, type |-> Ty_Api],  score |-> 9],
      [text |-> T_Overview, meta |-> [doc_id |-> D_Overview, type |-> Ty_Api],  score |-> 2],
      [text |-> T_Volume,   meta |-> [doc_id |-> D_Daily,    type |-> Ty_Over], score |-> 3],
      [text |-> T_NoNumber, meta |-> [doc_id |-> D_Daily,    type |-> Ty_Api],  score |-> 2] }

\* a retrieval result of k = 6 chunks, more than the 4 the prompt keeps
SixCands ==
    LET bar(s)  == [text |-> T_Bar, meta |-> [doc_id |-> D_Daily, type |-> Ty_Api], score |-> s]
        over(s) == [text |-> T_Overview, meta |-> [doc_id |-> D_Overview, type |-> Ty_Api],
                    score |-> s]
    IN  <<bar(1), bar(2), over(9), bar(3), bar(4), over(5)>>

\* the length of the long chunk text below
LongLen == 805

\* a chunk text longer than CHUNK_MAX_CHARS: words of six letters
T_Long == [i \in 1..LongLen |-> IF i % 7 = 0 THEN " " ELSE "x"]

\* a retrieval result whose best chunk is the long one
LongCands ==
    << [text |-> T_Long, meta |-> [doc_id |-> D_Daily, type |-> Ty_Api], score |-> 1],
       [text |-> T_Bar, meta |-> [doc_id |-> D_Daily, type |-> Ty_Api], score |-> 2] >>

Candidates == SeqUpTo(Retrieved, MaxCands) \cup {SixCands, LongCands}

\* what the generator may return
GenOutputs ==
    { <<>>, <<" ", "\n">>, <<"4", "2">>, <<"N", "/", "A", "\n">>, <<"1", "2", "3", "4",
            "5">>, <<"Y", "e", "s",
            ".">>, <<" ", "A", "p", "p", "l", "e", " ", "m", "a", "k", "e", "s", " ", "p", "h",
            "o", "n", "e", "s", ".", "\n">>, <<"I", " ", "d", "o", "n", "'", "t", " ", "k", "n",
            "o", "w", ".">> }

InitAnswer ==
    /\ IdleIndex /\ IdleGet /\ IdleTs /\ IdleApi /\ IdleRace
    /\ ansIn \in [query : Queries, candidates : Candidates, out : GenOutputs]
    /\ ansOut = [pc |-> "idle"]

NextAnswer == Answer

SpecAnswer == InitAnswer /\ [][NextAnswer]_vars
-----------------------------------------------------------------------------
(* The claims about the answer composer (under SpecAnswer)                 *)

AnswerDone == ansOut.pc = "done"

\* the generator's output, stripped, is the empty string
GenerationEmpty == Strip(ansIn.out) = <<>>

\* C5: when retrieval returns an empty list, answer() returns "I don't know."
\* and an empty chunk list, for every query and every generator output.
C5_NoContextAnswer ==
    (AnswerDone /\ ansIn.candidates = <<>>) =>
        (ansOut.answer = A_DontKnow /\ ansOut.chunks = <<>>)

\* C6: when generation yields the empty string, the query is numeric-flavored
\* and the best chunk's text holds 'close' followed by a number written with
\* commas, the answer contains that number with the commas removed.
C6_FallbackStripsCommas ==
    (/\ AnswerDone
     /\ GenerationEmpty
     /\ ContainsNumericRequest(ansIn.query)
     /\ ansOut.chunks # <<>>
     /\ CloseMatch(ansOut.chunks[1].text) # None
     /\ Contains(CloseMatch(ansOut.chunks[1].text), <<",">>))
        => /\ Contains(ansOut.answer, Replace(CloseMatch(ansOut.chunks[1].text), ",", <<>>))
           /\ ansOut.answer # ansIn.out

\* how often chunk c occurs in the list s
Count(s, c) == Cardinality({i \in 1..Len(s) : s[i] = c})

\* C7: _prioritize_chunks returns a permutation of its input in which every
\* overview-flavored chunk precedes every other chunk and in which the scores
\* within each of the two buckets ascend.
C7_TwoBucketOrder ==
    AnswerDone =>
        LET in  == ansIn.candidates
            out == ansOut.prioritized
        IN  /\ Len(out) = Len(in)
            /\ \A c \in Range(in) \cup Range(out) : Count(out, c) = Count(in, c)
            /\ \A i, j \in 1..Len(out) :
                  i < j =>
                     /\ ~(~IsOverview(out[i]) /\ IsOverview(out[j]))
                     /\ (IsOverview(out[i]) = IsOverview(out[j])
                            => out[i].score <= out[j].score)

\* an overview chunk of score 9 is placed before another chunk of score 1 that
\* retrieval had ranked first
C7_Witness ==
    /\ AnswerDone
    /\ Len(ansIn.candidates) = 2
    /\ ~IsOverview(ansIn.candidates[1]) /\ ansIn.candidates[1].score = 1
    /\ IsOverview(ansIn.candidates[2]) /\ ansIn.candidates[2].score = 9
    /\ ansOut.prioritized = <<ansIn.candidates[2], ansIn.candidates[1]>>

\* the template a prompt was built from, read off its fixed opening
Template(prompt) ==
    CASE MatchAt(prompt, P_Extract, 0)   -> "numeric"
      [] MatchAt(prompt, P_Summarize, 0) -> "company"
      [] MatchAt(prompt, P_Context, 0)   -> "general"
      [] OTHER -> "none"

\* the template the query's keywords select: numeric before company before general
KeywordTemplate(query) ==
    IF \E k \in NumericKeywords : Contains(Lower(query), k) THEN "numeric"
    ELSE IF \E k \in CompanyKeywords : Contains(Lower(query), k) THEN "company"
    ELSE "general"

\* C8 as stated: for every query and every context list the template is the
\* one the query's keywords select.
C8_TemplateByKeywords ==
    AnswerDone => Template(ansOut.prompt) = KeywordTemplate(ansIn.query)

\* C8 amended: for a non-empty context list the template is the one the
\* query's keywords select (numeric before company before general), and the
\* numeric prompt embeds the best chunk's whole text; for an empty context list
\* the template is the general one, whatever the query.
C8_TemplateByKeywordsAndContext ==
    AnswerDone =>
        /\ ansOut.chunks # <<>> =>
              /\ Template(ansOut.prompt) = KeywordTemplate(ansIn.query)
              /\ Template(ansOut.prompt) = "numeric" =>
                    MatchAt(ansOut.prompt, ansOut.chunks[1].text, Len(P_Extract))
        /\ ansOut.chunks = <<>> => Template(ansOut.prompt) = "general"

\* "Summarize company overview" with an overview chunk retrieved gets the
\* company-summary template
C8_Witness ==
    /\ AnswerDone
    /\ ansIn.query = <<"S", "u", "m", "m", "a", "r", "i", "z", "e", " ", "c", "o", "m", "p",
            "a", "n", "y", " ", "o", "v", "e", "r", "v", "i", "e", "w">>
    /\ ansOut.chunks # <<>>
    /\ IsOverview(ansOut.chunks[1])
    /\ Template(ansOut.prompt) = "company"

\* the chunks with _shorten_text applied to each text
Shortened(chunks) == [i \in 1..Len(chunks) |-> [chunks[i] EXCEPT !.text = ShortenText(@)]]

\* C13: every prompt embeds its chunk texts cut to CHUNK_MAX_CHARS characters
\* (plus the ellipsis) before the template's own cut (none, 400 or 200), so no
\* prompt embeds more than 800 characters and the ellipsis of one chunk's text.
C13_PromptChunkCap ==
    AnswerDone =>
        /\ ansOut.prompt = BuildPrompt(ansIn.query, Shortened(ansOut.chunks))
        /\ \A i \in 1..Len(ansOut.chunks) :
              Len(ansOut.chunks[i].text) > CHUNK_MAX_CHARS + 4
                  => ~Contains(ansOut.prompt, ansOut.chunks[i].text)
\* the generator's output, trimmed
Trimmed == Strip(ansIn.out)

\* empty, 3 characters or fewer, or digits only
TrimmedIsPoor ==
    \/ Len(Trimmed) = 0
    \/ Len(Trimmed) <= 3
    \/ \A i \in 1..Len(Trimmed) : Trimmed[i] \in Digit

\* the answers the fallback derives from one chunk text
DerivedFrom(text) ==
    { FirstSentence(text) }
        \cup (IF CloseMatch(text) = None THEN {} ELSE {A_BtcClose \o CloseMatch(text)})
        \cup (IF FirstNumeric(text) = None THEN {}
              ELSE {A_Price \o ExtractNumericFromText(text)})

\* C14: answer() takes the fallback path exactly when the trimmed generator
\* output is empty, has 3 characters or fewer, or consists only of digits, and
\* otherwise returns the trimmed output unchanged; on the fallback path with
\* context the answer is derived from the best chunk's text alone; on both
\* paths the chunk list returned is the first at most 4 prioritized chunks.
C14_FallbackTrigger ==
    AnswerDone =>
        /\ ansOut.fallback <=> TrimmedIsPoor
        /\ ~TrimmedIsPoor => ansOut.answer = Trimmed
        /\ (TrimmedIsPoor /\ ansOut.chunks # <<>>)
              => ansOut.answer \in DerivedFrom(ansOut.chunks[1].text)
        /\ ansOut.chunks = Slice(PrioritizeChunks(ansIn.candidates), 0, 4)
        /\ Len(ansOut.chunks) <= 4

\* a digits-only output of more than 3 characters took the fallback, on a
\* retrieval result of 6 chunks of which 4 are returned
C14_Witness ==
    /\ AnswerDone
    /\ Trimmed = <<"1", "2", "3", "4", "5">>
    /\ ansOut.fallback
    /\ ansOut.answer # Trimmed
    /\ Len(ansIn.candidates) = 6
    /\ Len(ansOut.chunks) = 4
-----------------------------------------------------------------------------
(* SpecTs: the passage builders on every response of the sets below         *)

\* the most dated rows of a series, and the largest max_days
MaxRows == 2
MaxDays == 2

Dates == { <<"2", "0", "2", "4", "-", "0", "1", "-", "0", "5">>, <<"2", "0", "2", "4", "-", "0",
        "1", "-", "0", "4">>, <<"2", "0", "2", "3", "-", "1", "2", "-", "3", "1">> }

StockRows ==
    { << <<<<"1", ".", " ", "o", "p", "e", "n">>, <<"1", "0">>>>, <<<<"2", ".", " ", "h", "i",
            "g", "h">>, <<"1", "2">>>>, <<<<"3", ".", " ", "l", "o", "w">>, <<"9">>>>,
         <<<<"4", ".", " ", "c", "l", "o", "s", "e">>, <<"1", "1">>>>, <<<<"6", ".", " ", "v",
                 "o", "l", "u", "m", "e">>, <<"1", "0", "0">>>> >>,
      << <<<<"1", ".", " ", "o", "p", "e", "n">>, <<"1", "0">>>>, <<<<"5", ".", " ", "a", "d",
              "j", "u", "s", "t", "e", "d", " ", "c", "l", "o", "s", "e">>, <<"1",
              "1">>>>, <<<<"5", ".", " ", "v", "o", "l", "u", "m", "e">>, <<"1", "0",
              "0">>>> >>,
      << <<<<"1", ".", " ", "o", "p", "e", "n">>, <<"1", "0">>>>, <<<<"v", "o", "l", "u", "m",
              "e">>, <<"1", "0", "0">>>> >>,
      << <<<<"4", ".", " ", "c", "l", "o", "s", "e">>, <<>> >>, <<<<"5", ".", " ", "a", "d",
              "j", "u", "s", "t", "e", "d", " ", "c", "l", "o", "s", "e">>, <<"1", "1">>>> >>,
      << >> }

CryptoRows ==
    { << <<<<"1", ".", " ", "o", "p", "e", "n">>, <<"1", "0">>>>, <<<<"2", ".", " ", "h", "i",
            "g", "h">>, <<"1", "2">>>>, <<<<"3", ".", " ", "l", "o", "w">>, <<"9">>>>,
         <<<<"4", ".", " ", "c", "l", "o", "s", "e">>, <<"1", "1">>>>, <<<<"5", ".", " ", "v",
                 "o", "l", "u", "m", "e">>, <<"1", "0", "0">>>> >>,
      << <<<<"1", "a", ".", " ", "o", "p", "e", "n", " ", "(", "U", "S", "D", ")">>, <<"1",
              "0">>>>, <<<<"2", "a", ".", " ", "h", "i", "g", "h", " ", "(", "U", "S", "D",
              ")">>, <<"1", "2">>>>,
         <<<<"3", "b", ".", " ", "l", "o", "w", " ", "(", "U", "S", "D",
                 ")">>, <<"9">>>>, <<<<"4", "a", ".", " ", "c", "l", "o", "s", "e", " ", "(",
                 "U", "S", "D", ")">>, <<"1", "1">>>>,
         <<<<"5", ".", " ", "v", "o", "l", "u", "m", "e">>, <<"1", "0", "0">>>> >>,
      << <<<<"4", "a", ".", " ", "c", "l", "o", "s", "e", " ", "(", "U", "S", "D", ")">>, <<"1",
              "1">>>> >>,
      << <<<<"4", "b", ".", " ", "c", "l", "o", "s", "e", " ", "(", "E", "U", "R",
              ")">>, <<"8">>>>, <<<<"4", "a", ".", " ", "c", "l", "o", "s", "e", " ", "(", "U",
              "S", "D", ")">>, <<"1", "1">>>> >>,
      << <<<<"o", "p", "e", "n">>, <<"1", "0">>>>, <<<<"C", "l", "o", "s", "e">>, <<"1",
              "1">>>>, <<<<"v", "o", "l", "u", "m", "e">>, <<"1", "0", "0">>>> >>,
      << <<<<"6", ".", " ", "m", "a", "r", "k", "e", "t", " ", "c", "a", "p", " ", "(", "u",
              "s", "d", ")">>, <<"5", "0", "0">>>>, <<<<"4", ".", " ", "c", "l", "o", "s",
              "e">>, <<"1", "1">>>> >>,
      << >> }

\* the series over at most MaxRows of the dates
SeriesOver(rows) ==
    UNION {[D -> rows] : D \in {E \in SUBSET Dates : Cardinality(E) <= MaxRows}}

\* a response without a series, and the responses that hold one under key k
K_Meta == <<"M", "e", "t", "a", " ", "D", "a", "t", "a">>
JsonsWith(keys, rows) ==
    { << <<K_Meta, <<>> >> >> }
        \cup { << <<K_Meta, <<>> >>, <<k, s>> >> : k \in keys, s \in SeriesOver(rows) }

StockSeriesKeys  == { <<"T", "i", "m", "e", " ", "S", "e", "r", "i", "e", "s", " ", "(", "D",
        "a", "i", "l", "y", ")">>, <<"t", "i", "m", "e", " ", "s", "e", "r", "i", "e", "s", " ",
        "(", "d", "a", "i", "l", "y", ")">> }
CryptoSeriesKeys == { <<"T", "i", "m", "e", " ", "S", "e", "r", "i", "e", "s", " ", "(", "D",
        "i", "g", "i", "t", "a", "l", " ", "C", "u", "r", "r", "e", "n", "c", "y", " ", "D",
        "a", "i", "l", "y", ")">>, <<"t", "i", "m", "e", " ", "s", "e", "r", "i", "e", "s", " ",
        "(", "d", "i", "g", "i", "t", "a", "l", ")">> }

TsInputs ==
    [fn : {"stock"}, symbol : {<<"A", "A", "P", "L">>}, market : {<<"U", "S", "D">>},
     json : JsonsWith(StockSeriesKeys, StockRows), max_days : 0..MaxDays]
        \cup
    [fn : {"crypto"}, symbol : {<<"B", "T", "C">>}, market : {<<"U", "S", "D">>, <<"E", "U",
            "R">>},
     json : JsonsWith(CryptoSeriesKeys, CryptoRows), max_days : 0..MaxDays]

InitTs ==
    /\ IdleIndex /\ IdleGet /\ IdleAnswer /\ IdleApi /\ IdleRace
    /\ tsIn \in TsInputs
    /\ tsOut = [pc |-> "idle"]

NextTs == StockPassages \/ CryptoPassages

SpecTs == InitTs /\ [][NextTs]_vars
-----------------------------------------------------------------------------
(* The claims about the passage builders (under SpecTs)                    *)

\* the series of a response: the value of the first key that contains
\* "time series", ignoring case
HasSeriesKey(k) == Contains(Lower(k), <<"t", "i", "m", "e", " ", "s", "e", "r", "i", "e", "s">>)
SeriesKeys(json) == {i \in 1..Len(json) : HasSeriesKey(json[i][1])}
SeriesOf(json) == FirstAt(json, SeriesKeys(json))[2]

\* the three tiers of C9 for one field of a row: the plain numbered key, then
\* the market-qualified keys <n>a and <n>b, then the first key that contains the
\* field's name ignoring case
HasKey(row, k) == \E i \in 1..Len(row) : row[i][1] = k

TierMatches(row, n, field, market) ==
    \/ HasKey(row, n \o <<".", " ">> \o field)
    \/ HasKey(row, MarketKey(n, <<"a">>, field, market))
    \/ HasKey(row, MarketKey(n, <<"b">>, field, market))
    \/ \E i \in 1..Len(row) : Contains(Lower(row[i][1]), field)

TierPick(row, n, field, market) ==
    LET named == {i \in 1..Len(row) : Contains(Lower(row[i][1]), field)}
    IN  IF HasKey(row, n \o <<".", " ">> \o field) THEN Get(row, n \o <<".", " ">> \o field)
        ELSE IF HasKey(row, MarketKey(n, <<"a">>, field, market))
        THEN Get(row, MarketKey(n, <<"a">>, field, market))
        ELSE IF HasKey(row, MarketKey(n, <<"b">>, field, market))
        THEN Get(row, MarketKey(n, <<"b">>, field, market))
        ELSE FirstAt(row, named)[2]

\* what C9 lets a field be rendered as: the first matching tier's value; when
\* no tier matches the claim leaves the rendering open (the placeholder or any
\* value of the row)
TierAllows(row, n, field, market) ==
    IF TierMatches(row, n, field, market)
    THEN {Fmt(TierPick(row, n, field, market))}
    ELSE {Fmt(None)} \cup {row[i][2] : i \in 1..Len(row)}

TierPassages(symbol, market, date, row) ==
    { symbol \o <<"/">> \o market \o <<" ", "o", "n", " ">> \o date \o <<":", " ", "o", "p",
            "e", "n", " ">> \o o \o <<",", " ", "h", "i", "g", "h", " ">> \o h
          \o <<",", " ", "l", "o", "w", " ">> \o l \o <<",", " ", "c", "l", "o", "s", "e",
                  " ">> \o c \o <<",", " ", "v", "o", "l", "u", "m", "e",
                  " ">> \o v \o <<".">> :
        o \in TierAllows(row, <<"1">>, <<"o", "p", "e", "n">>, market),
        h \in TierAllows(row, <<"2">>, <<"h", "i", "g", "h">>, market),
        l \in TierAllows(row, <<"3">>, <<"l", "o", "w">>, market),
        c \in TierAllows(row, <<"4">>, <<"c", "l", "o", "s", "e">>, market),
        v \in TierAllows(row, <<"5">>, <<"v", "o", "l", "u", "m", "e">>, market) }

\* C9: every crypto passage renders each of open, high, low, close and volume
\* as the value of the first of the three tiers that matches in its row, and as
\* the placeholder only if none matches.
C9_ThreeTierFallback ==
    (tsOut.pc = "done" /\ tsIn.fn = "crypto" /\ tsOut.out # <<>>) =>
        LET series == SeriesOf(tsIn.json)
            dates  == Items(series, tsIn.max_days)
        IN  \A i \in 1..Len(tsOut.out) :
                tsOut.out[i] \in
                    TierPassages(tsIn.symbol, tsIn.market, dates[i], series[dates[i]])

Min(a, b) == IF a <= b THEN a ELSE b

\* C10: for an equity response with a key that contains "Time Series" ignoring
\* case and n dated rows, _ts_stock_passages emits min(n, max_days) passages,
\* one per date, most recent first; a row with neither "4. close" nor
\* "5. adjusted close" has its close rendered as None.
C10_StockPassagesEmitted ==
    (/\ tsOut.pc = "done"
     /\ tsIn.fn = "stock"
     /\ SeriesKeys(tsIn.json) # {})
        => LET series == SeriesOf(tsIn.json)
               dates  == SortDesc(DOMAIN series)
           IN  /\ Len(tsOut.out) = Min(Cardinality(DOMAIN series), tsIn.max_days)
               /\ \A i \in 1..Len(tsOut.out) :
                     /\ MatchAt(tsOut.out[i],
                                tsIn.symbol \o <<" ", "d", "a", "i", "l", "y", " ", "b", "a",
                                        "r", " ", "o", "n", " ">> \o dates[i] \o <<":">>, 0)
                     /\ (Get(series[dates[i]], <<"4", ".", " ", "c", "l", "o", "s",
                             "e">>) = None
                            /\ Get(series[dates[i]], <<"5", ".", " ", "a", "d", "j", "u", "s",
                                    "t", "e", "d", " ", "c", "l", "o", "s", "e">>) = None)
                           => Contains(tsOut.out[i], <<",", " ", "c", "l", "o", "s", "e", " ",
                                   "N", "o", "n", "e", ",">>)
-----------------------------------------------------------------------------
(* SpecApi: build_api_docs on every pair of symbol lists, market and flags  *)
(* of the sets below                                                        *)

\* the longest symbol list
MaxSyms == 2

StockSymbols == { <<"A", "A", "P", "L">>, <<"M", "S", "F", "T">> }
CryptoSymbols == { <<"B", "T", "C">>, <<"E", "T", "H">> }

ApiInputs ==
    [stocks : SeqUpTo(StockSymbols, MaxSyms), crypto : SeqUpTo(CryptoSymbols, MaxSyms),
     market : {<<"U", "S", "D">>, <<"E", "U", "R">>}, days : 0..MaxDays,
     include_overview : BOOLEAN, include_earnings : BOOLEAN, include_news : BOOLEAN,
     key : BOOLEAN]

InitApi ==
    /\ IdleIndex /\ IdleGet /\ IdleAnswer /\ IdleTs /\ IdleRace
    /\ apiIn \in ApiInputs
    /\ apiOut = [pc |-> "idle"]

NextApi == BuildApiDocs

SpecApi == InitApi /\ [][NextApi]_vars

-----------------------------------------------------------------------------
(* The claims about build_api_docs (under SpecApi)                          *)

\* C12: the ids of the passages build_api_docs returns are pairwise distinct,
\* for every pair of symbol lists, market and flags, lists that name a symbol
\* more than once included.
C12_PassageIdsDistinct ==
    (apiOut.pc = "done") =>
        \A i, j \in 1..Len(apiOut.docs) :
            (i # j) => (apiOut.docs[i].id # apiOut.docs[j].id)
-----------------------------------------------------------------------------
(* app/index.py and app/retriever.py: build_index step by step, with a     *)
(* retrieve() of another session running between its steps                 *)

\* TOP_K of app/config.py, and the k answer() passes
TOP_K == 4
AnswerK == 6

\* col.query(query_embeddings, n_results=k): the k nearest of the stored chunks,
\* all of them when fewer are stored; which ones are nearest is the embedder's
\* choice
TopK(stored, k) ==
    {res \in SUBSET stored : Cardinality(res) = Min(k, Cardinality(stored))}

\* the builds of one behaviour
MaxBuilds == 2

\* build_index, lines 28-47: get_collection, the batch, "if not texts: return 0"
BuildStart(docs, chunker) ==
    LET batch == Batch(docs, chunker)
    IN  /\ build.pc = "idle"
        /\ build.n < MaxBuilds
        /\ exists' = GetCollection(exists, "docs")
        /\ build' = [pc |-> IF batch = <<>> THEN "idle" ELSE "delete",
                     n |-> build.n + 1, batch |-> batch, before |-> cols["docs"],
                     cleared |-> FALSE]
        /\ last' = IF batch = <<>>
                   THEN [op |-> "build_index", name |-> "docs", batch |-> batch,
                         existed |-> "docs" \in exists, before |-> cols["docs"],
                         raised |-> FALSE, ret |-> 0]
                   ELSE last
        /\ UNCHANGED <<cols, seen, getVars, ansVars, tsVars, apiVars>>

\* build_index, lines 50-53: try: col.delete(where={}) except Exception: pass
BuildDelete(deleted) ==
    /\ build.pc = "delete"
    /\ cols' = [cols EXCEPT !["docs"] = AfterDelete(@, deleted)]
    /\ build' = [build EXCEPT !.pc = "add", !.cleared = deleted]
    /\ UNCHANGED <<exists, last, seen, getVars, ansVars, tsVars, apiVars>>

\* build_index, lines 54-55: col.add(...); return len(ids)
BuildAdd(skips) ==
    LET raised == AddRaises(cols["docs"], build.batch, skips)
    IN  /\ build.pc = "add"
        /\ cols' = [cols EXCEPT !["docs"] = AfterAdd(@, build.batch, skips)]
        /\ build' = [build EXCEPT !.pc = "idle"]
        /\ last' = [op |-> "build_index", name |-> "docs", batch |-> build.batch,
                    existed |-> TRUE, before |-> build.before, raised |-> raised,
                    ret |-> IF raised THEN -1 ELSE Len(build.batch)]
        /\ UNCHANGED <<exists, seen, getVars, ansVars, tsVars, apiVars>>

\* retrieve with a lock that excludes a running build_index
RetrieveLocked ==
    /\ build.pc = "idle"
    /\ \E k \in {TOP_K, AnswerK} : \E res \in TopK(cols["docs"], k) :
          seen' = [pc |-> "done", result |-> res, during |-> build.pc, n |-> build.n,
                   cleared |-> build.cleared]
    /\ exists' = GetCollection(exists, "docs")
    /\ UNCHANGED <<cols, last, build, getVars, ansVars, tsVars, apiVars>>

\* retrieve(query, k, "docs"): get_collection, col.query; seen keeps the result
\* and the point of the build it ran at
Retrieve ==
    /\ \E k \in {TOP_K, AnswerK} : \E res \in TopK(cols["docs"], k) :
          seen' = [pc |-> "done", result |-> res, during |-> build.pc, n |-> build.n,
                   cleared |-> build.cleared]
    /\ exists' = GetCollection(exists, "docs")
    /\ UNCHANGED <<cols, last, build, getVars, ansVars, tsVars, apiVars>>

-----------------------------------------------------------------------------
(* SpecRace: one session rebuilding the index, another one querying it      *)

\* the Passage lists of the rebuilds: one passage each, or none
RaceDocs == SeqUpTo(Passages, 1)

NextRace ==
    \/ \E docs \in RaceDocs, chunker \in Chunkers : BuildStart(docs, chunker)
    \/ \E deleted \in BOOLEAN : BuildDelete(deleted)
    \/ \E skips \in BOOLEAN : BuildAdd(skips)
    \/ Retrieve

SpecRace == Init /\ [][NextRace]_vars

-----------------------------------------------------------------------------
(* The claims about the rebuild and the query (under SpecRace)              *)

\* C15: build_index clears and then inserts, and takes no lock: retrieve can
\* run at every point of a rebuild; between a clear that went through and the
\* insert the collection is empty, and a retrieve that runs there returns
\* nothing, whatever the collection held before the rebuild.
C15_RebuildQueryRace ==
    /\ (build.pc \in {"delete", "add"}) => ENABLED Retrieve
    /\ (build.pc = "add" /\ build.cleared) => cols["docs"] = {}
    /\ (seen.pc = "done" /\ seen.during = "add" /\ seen.cleared) => seen.result = {}

\* a rebuild of a populated collection has finished and left it populated, and
\* the retrieve that ran between its clear and its insert returned nothing
C15_Witness ==
    /\ build.pc = "idle"
    /\ last.op = "build_index" /\ ~last.raised /\ last.ret > 0
    /\ last.before # {}
    /\ cols["docs"] # {}
    /\ seen.pc = "done" /\ seen.n = build.n /\ seen.during = "add"
    /\ seen.result = {}
====
